---- MODULE Spec2Model ----
(***************************************************************************)
(* SpeedTestAnalyzer (src/app.js): the speed-test orchestrator, its two    *)
(* sampling loops, the rolling series behind the chart and the session     *)
(* statistics.                                                             *)
(*                                                                         *)
(* JavaScript runs each handler to its next await, so one action of this   *)
(* module is one such run: a click handler, or the resumption of one       *)
(* startSpeedTest() invocation after the await it was suspended at.        *)
(* Several invocations can be alive at once (a stopped one that has not    *)
(* yet reached its loop head, and a newer one); sess holds one record per  *)
(* live invocation.                                                        *)
(*                                                                         *)
(* Units.  Time is counted in ticks of config.updateInterval (200 ms).     *)
(* Throughput is an integer number of thousandths of a Mbps; the values    *)
(* kept in the series are hundredths of a Mbps, as Math.round(x*100)/100   *)
(* leaves them.  The wall-clock label pushed to timestamps is the ordinal  *)
(* of the push since the last reset.                                       *)
(***************************************************************************)
EXTENDS Integers, Sequences, FiniteSets, TLC

\* ---------------------------------------------------------------- bounds
\* Start is not offered once this many tests have been counted.
MaxTests == 1
\* config.testDuration in ticks (source: 10000 ms = 50 ticks), scaled down.
testDuration == 2
\* config.maxDataPoints (source: 20), scaled down with testDuration so that,
\* as in the source, a phase can push more values than the window holds.
maxDataPoints == 2
\* The per-probe deadline of fetchWithTimeout in ticks (source: 3000 ms).
probeTimeout == 1
\* The 'change' events of navigator.connection a behaviour follows.
MaxChanges == 3

\* ------------------------------------------------------------- constants
\* config.updateInterval: the unit of model time.
updateInterval == 1
\* The sanity bound of both loops, 1000 Mbps, in thousandths of a Mbps.
SanityLimit == 1000000

\* The slots for live startSpeedTest() invocations: an invocation that was
\* stopped and has not yet returned, and the one started after it.
Sessions ==
    {1, 2}

\* The environments a behaviour runs in: the throughputs a probe can measure,
\* in thousandths of a Mbps, the slots Start may use, and whether a call into
\* the page or the chart can throw.  "race" has two overlapping invocations,
\* one throughput the sanity check accepts beside the two nearest it rejects,
\* and no thrown error; "solo" has one invocation at a time, two accepted
\* throughputs, so that the order of the values in a series shows, and
\* thrown errors.
Environments ==
    {[name |-> "race", mbps |-> {0, 1004, SanityLimit}, slots |-> {1, 2},
      throws |-> {FALSE}],
     [name |-> "solo", mbps |-> {1004, 3001}, slots |-> {1},
      throws |-> BOOLEAN]}

\* isTestRunning, testData, stats: the fields of SpeedTestAnalyzer.
\* sess[s]: a live invocation of startSpeedTest: the await it is suspended at
\*   (pc), Date.now() - startTime of its phase as last read (elapsed), the
\*   downloadSpeeds or uploadSpeeds of its phase (speeds), and whether a later
\*   start has reset the series since it was launched (superseded).
\* status: the notification showStatus() showed last.
\* op: the handler that ran last: "start" and "stop" for the two clicks,
\*   "resume" for a resumption of an invocation, "throw" for a run that ended
\*   in the catch of startSpeedTest; a resumption that ended an iteration
\*   without a sample is "failed" when the probe failed and "rejected" when
\*   the sanity check refused the measurement.
\* pushed: the values updateDownloadSpeed() pushed since the last reset.
\* env: the environment of the behaviour.
\* net: the run of loadNetworkInfo() and the fields of the page it fills.
\* lat: the locals of measureLatency() and the latency field it fills.
\* scn: one run of runDownloadTest() timed to the millisecond.
\* fwt: the calls of fetchWithTimeout(), each with its two racing promises.
\* dns: the run of testDNS() and what it shows.
\* page: the change listeners of navigator.connection, the network scan and
\*   the export.
VARIABLES isTestRunning, testData, stats, sess, status, op, pushed, env,
          net, lat, scn, fwt, dns, page

vars ==
    <<isTestRunning, testData, stats, sess, status, op, pushed, env, net, lat, scn,
      fwt, dns, page>>

\* What the speed test never writes.
outside ==
    <<env, net, lat, scn, fwt, dns, page>>

\* What only the speed test writes.
speedTest ==
    <<isTestRunning, testData, stats, sess, status, op, pushed, env>>

\* ------------------------------------------------------------ arithmetic
Min(a, b) ==
    IF a <= b THEN a ELSE b

Max(a, b) ==
    IF a >= b THEN a ELSE b

RECURSIVE Gcd(_, _)
Gcd(a, b) ==
    IF b = 0 THEN a ELSE Gcd(b, a % b)

RECURSIVE Sum(_)
\* array.reduce((a, b) => a + b, 0)
Sum(seq) ==
    IF seq = <<>> THEN 0 ELSE Head(seq) + Sum(Tail(seq))

RECURSIVE MaxOf(_)
\* Math.max(...array) of a non-empty array of non-negative numbers
MaxOf(seq) ==
    IF seq = <<>> THEN 0 ELSE Max(Head(seq), MaxOf(Tail(seq)))

\* The fraction n/d in lowest terms (d > 0).
Rat(n, d) ==
    LET g == Gcd(n, d) IN [n |-> n \div g, d |-> d \div g]

RatAdd(p, q) ==
    Rat(p.n * q.d + q.n * p.d, p.d * q.d)

\* sum / length of a non-empty array, as an exact fraction
Mean(seq) ==
    Rat(Sum(seq), Len(seq))

\* Math.round(speed * 100) / 100 for speed = n/d thousandths of a Mbps,
\* in hundredths: floor(n/(10 d) + 1/2).
RoundHundredths(n, d) ==
    (2 * n + 10 * d) \div (20 * d)

\* array.shift(): drops the first element, a no-op on an empty array
Shift(seq) ==
    IF seq = <<>> THEN <<>> ELSE Tail(seq)

\* ------------------------------------------------------ rolling aggregator
\* The wall-clock label of a push made now.
TimeLabel ==
    Len(pushed) + 1

\* updateChart with pop() where shift() stands: the newest entries go.
updateChart_Pop(td) ==
    IF Len(td.timestamps) > maxDataPoints
    THEN [timestamps |-> SubSeq(td.timestamps, 1, Len(td.timestamps) - 1),
          download   |-> SubSeq(td.download, 1, Len(td.download) - 1),
          upload     |-> IF Len(td.upload) > 0
                         THEN SubSeq(td.upload, 1, Len(td.upload) - 1)
                         ELSE td.upload]
    ELSE td

updateChart(td) ==
    IF Len(td.timestamps) > maxDataPoints
    THEN [timestamps |-> Shift(td.timestamps),
          download   |-> Shift(td.download),
          upload     |-> IF Len(td.upload) > 0 THEN Shift(td.upload) ELSE td.upload]
    ELSE td

\* updateDownloadSpeed(n/d), the push being labelled t
updateDownloadSpeed(td, n, d, t) ==
    updateChart([td EXCEPT !.download = Append(@, RoundHundredths(n, d)),
                           !.timestamps = Append(@, t)])

\* updateUploadSpeed pushing a time label as updateDownloadSpeed does.
updateUploadSpeed_PushesLabel(td, n, d) ==
    updateChart([td EXCEPT !.upload = Append(@, RoundHundredths(n, d)),
                           !.timestamps = Append(@, TimeLabel)])

updateUploadSpeed(td, n, d) ==
    updateChart([td EXCEPT !.upload = Append(@, RoundHundredths(n, d))])

resetTestUI ==
    [download |-> <<>>, upload |-> <<>>, timestamps |-> <<>>]

\* The sanity check with both ends of the range let in.
Sane_Inclusive(mbps) ==
    mbps >= 0 /\ mbps <= SanityLimit

\* The sanity check of both loops: mbps > 0 && mbps < 1000.
Sane(mbps) ==
    mbps > 0 /\ mbps < SanityLimit

\* -------------------------------------------------------------- statistics
updateStats(st, td) ==
    IF Len(td.download) = 0 /\ Len(td.upload) = 0
    THEN st
    ELSE LET avgDownload == IF Len(td.download) > 0 THEN Mean(td.download) ELSE Rat(0, 1)
             avgUpload   == IF Len(td.upload) > 0 THEN Mean(td.upload) ELSE Rat(0, 1)
             maxDownload == IF Len(td.download) > 0 THEN MaxOf(td.download) ELSE 0
             maxUpload   == IF Len(td.upload) > 0 THEN MaxOf(td.upload) ELSE 0
         IN [testsRun      |-> st.testsRun + 1,
             totalDownload |-> RatAdd(st.totalDownload, avgDownload),
             totalUpload   |-> RatAdd(st.totalUpload, avgUpload),
             maxDownload   |-> Max(st.maxDownload, maxDownload),
             maxUpload     |-> Max(st.maxUpload, maxUpload)]

\* ------------------------------------------------------------------- state
\* loadNetworkInfo() has not been called: the fields of the page hold what
\* the document gave them, no notification has been shown.  conn is
\* navigator.connection as the run finds it, cause the await whose failure
\* reached the catch of loadNetworkInfo.
NetIdle ==
    [pc |-> "idle", conn |-> "unread", cause |-> "none",
     localIP |-> "initial", connectionType |-> "initial", networkName |-> "initial",
     connectionSpeed |-> "initial", publicIP |-> "initial", location |-> "initial",
     isp |-> "initial", signalStrength |-> "initial", networkQuality |-> "initial",
     errors |-> 0, successes |-> 0]

\* measureLatency() has not been called.  measurements is its array, waits
\* the 200 ms sleeps it has begun, down whether in every trial so far all
\* three probes were failing, text and band what the latency field shows;
\* cond is what the probes of the last trial met and tried the methods that
\* trial called, in order ("synthetic" for the made-up value).
LatIdle ==
    [pc |-> "idle", measurements |-> <<>>, waits |-> 0, down |-> TRUE,
     text |-> "initial", rounded |-> 0, band |-> "none",
     cond |-> [fetch |-> "ok", image |-> "ok", webrtc |-> "ok"], tried |-> <<>>]

\* The calls of fetchWithTimeout() a behaviour follows.
Calls ==
    {1, 2, 3}

\* fetchWithTimeout() not yet called: fetch is the promise of fetch(), timer
\* the promise the setTimeout callback rejects, result the promise that
\* Promise.race returns, settled the number of times result was settled.
FwtIdle ==
    [called |-> FALSE, fetch |-> "pending", timer |-> "pending",
     result |-> "pending", settled |-> 0]

\* testDNS() has not been called: pc is the await the run is suspended at,
\* i the resolver of the current iteration, results the local array, issued
\* the resolvers a request was sent for, in order, shown what the dnsResults
\* element displays and status the notification of the run.
DnsIdle ==
    [pc |-> "idle", i |-> 0, results |-> <<>>, issued |-> <<>>,
     shown |-> "hidden", status |-> "none"]

\* The page before initialize() calls checkConnection(): connection is
\* navigator.connection as checkConnection finds it, listeners the 'change'
\* listeners registered on it, changes the 'change' events dispatched so
\* far, rechecks and notified the calls of checkConnection() and of
\* showStatus() the last event caused; scan is the state of the network
\* scan and exported whether exportResults() has produced a file.
PageIdle ==
    [connection |-> "unread", listeners |-> 0, changes |-> 0, rechecks |-> 0,
     notified |-> 0, scan |-> "idle", exported |-> FALSE]

\* No timed run.
ScnIdle ==
    [pc |-> "idle"]

\* The record of a slot no invocation occupies.
NoSession ==
    [pc |-> "none", elapsed |-> 0, speeds |-> <<>>, superseded |-> FALSE]

Init ==
    /\ isTestRunning = FALSE
    /\ testData = resetTestUI
    /\ stats = [testsRun |-> 0, totalDownload |-> Rat(0, 1), totalUpload |-> Rat(0, 1),
                maxDownload |-> 0, maxUpload |-> 0]
    /\ sess = [s \in Sessions |-> NoSession]
    /\ status = "none"
    /\ op = "init"
    /\ pushed = <<>>
    /\ env \in Environments
    /\ net = NetIdle
    /\ lat = LatIdle
    /\ scn = ScnIdle
    /\ fwt = [c \in Calls |-> FwtIdle]
    /\ dns = DnsIdle
    /\ page = PageIdle

\* Date.now() - startTime as it can read after an await that took at least
\* lo ticks, having read e before; readings past testDuration are all alike
\* to the loop condition and are kept as testDuration.
Advance(e, lo) ==
    {x \in 0..testDuration : x >= Min(e + lo, testDuration)}

\* The free slot a new invocation takes.
FreeSlot ==
    CHOOSE s \in env.slots :
        /\ sess[s].pc = "none"
        /\ \A r \in env.slots : sess[r].pc = "none" => s <= r

\* -------------------------------------------------------- session endings
\* The catch of startSpeedTest without its finally.
Caught_NoFinally(ss, s) ==
    /\ status' = "failed"
    /\ isTestRunning' = isTestRunning
    /\ sess' = [ss EXCEPT ![s] = NoSession]
    /\ op' = "throw"

\* catch and finally of startSpeedTest, reached by an error thrown in the try
Caught(ss, s) ==
    /\ status' = "failed"
    /\ isTestRunning' = FALSE
    /\ sess' = [ss EXCEPT ![s] = NoSession]
    /\ op' = "throw"

\* updateStats(), the success notification, and finally stopSpeedTest()
Finalize(s, td) ==
    /\ stats' = updateStats(stats, td)
    /\ status' = "completed"
    /\ isTestRunning' = FALSE
    /\ sess' = [sess EXCEPT ![s] = NoSession]
    /\ op' = "resume"

\* --------------------------------------------------------- sampling loops
\* One more iteration of the download loop: updateProgress(), then the probe
\* is issued and the invocation waits for fetchWithTimeout.  ss is sess as
\* the caller leaves it, e the elapsed time read at the loop head.
DownloadIterate(ss, s, e) ==
    \E throws \in env.throws :
        IF throws
        THEN Caught(ss, s)
        ELSE /\ sess' = [ss EXCEPT ![s].pc = "dlFetch", ![s].elapsed = e]
             /\ op' = "resume"
             /\ UNCHANGED <<isTestRunning, status>>

\* DownloadExit with the upload phase started at once, the pause left out.
DownloadExit_NoPause(s) ==
    LET sp == sess[s].speeds
    IN /\ testData' = IF Len(sp) > 0
                      THEN updateDownloadSpeed(testData, Sum(sp), Len(sp), TimeLabel)
                      ELSE testData
       /\ pushed' = IF Len(sp) > 0
                    THEN Append(pushed, RoundHundredths(Sum(sp), Len(sp)))
                    ELSE pushed
       /\ sess' = [sess EXCEPT ![s].pc = "ulFetch", ![s].elapsed = 0, ![s].speeds = <<>>]
       /\ op' = "resume"
       /\ UNCHANGED <<isTestRunning, status, stats>>

\* DownloadExit publishing the last sample where the mean stands.
DownloadExit_LastSample(s) ==
    LET sp == sess[s].speeds
    IN /\ testData' = IF Len(sp) > 0
                      THEN updateDownloadSpeed(testData, sp[Len(sp)], 1, TimeLabel)
                      ELSE testData
       /\ pushed' = IF Len(sp) > 0
                    THEN Append(pushed, RoundHundredths(sp[Len(sp)], 1))
                    ELSE pushed
       /\ \E throws \in env.throws :
              IF throws
              THEN Caught(sess, s)
              ELSE /\ sess' = [sess EXCEPT ![s].pc = "pause", ![s].elapsed = 0,
                                           ![s].speeds = <<>>]
                   /\ op' = "resume"
                   /\ UNCHANGED <<isTestRunning, status>>
       /\ UNCHANGED stats

\* The download loop is left: the mean of the phase's samples is published,
\* runDownloadTest returns and startSpeedTest starts its 500 ms pause.
DownloadExit(s) ==
    LET sp == sess[s].speeds
    IN /\ testData' = IF Len(sp) > 0
                      THEN updateDownloadSpeed(testData, Sum(sp), Len(sp), TimeLabel)
                      ELSE testData
       /\ pushed' = IF Len(sp) > 0
                    THEN Append(pushed, RoundHundredths(Sum(sp), Len(sp)))
                    ELSE pushed
       /\ \E throws \in env.throws :
              IF throws
              THEN Caught(sess, s)
              ELSE /\ sess' = [sess EXCEPT ![s].pc = "pause", ![s].elapsed = 0,
                                           ![s].speeds = <<>>]
                   /\ op' = "resume"
                   /\ UNCHANGED <<isTestRunning, status>>
       /\ UNCHANGED stats

UploadIterate(s, e) ==
    \E throws \in env.throws :
        IF throws
        THEN Caught(sess, s) /\ UNCHANGED <<testData, stats, pushed>>
        ELSE /\ sess' = [sess EXCEPT ![s].pc = "ulFetch", ![s].elapsed = e]
             /\ op' = "resume"
             /\ UNCHANGED <<isTestRunning, testData, stats, status, pushed>>

\* The upload loop is left: the mean is published, runUploadTest returns and
\* startSpeedTest finalizes the statistics and stops.
UploadExit(s) ==
    LET sp == sess[s].speeds
        td == IF Len(sp) > 0 THEN updateUploadSpeed(testData, Sum(sp), Len(sp))
                             ELSE testData
    IN /\ testData' = td
       /\ \E throws \in (IF TRUE \in env.throws THEN {"no", "phase", "stats"} ELSE {"no"}) :
              CASE throws = "no"    -> Finalize(s, td)
                [] throws = "phase" -> Caught(sess, s) /\ UNCHANGED stats
                [] throws = "stats" -> Caught(sess, s) /\ stats' = updateStats(stats, td)
       /\ UNCHANGED pushed

\* LaunchSession without the call of resetTestUI().
LaunchSession_KeepsSeries ==
    /\ \E s \in env.slots : sess[s].pc = "none"
    /\ stats.testsRun < MaxTests
    /\ LET superseded == [r \in Sessions |->
                             IF sess[r].pc = "none" THEN sess[r]
                             ELSE [sess[r] EXCEPT !.superseded = TRUE]]
       IN \E throws \in env.throws :
              IF throws
              THEN Caught(superseded, FreeSlot)
              ELSE /\ isTestRunning' = TRUE
                   /\ sess' = [superseded EXCEPT ![FreeSlot].pc = "dlFetch"]
                   /\ op' = "start"
                   /\ UNCHANGED status
    /\ UNCHANGED <<testData, pushed, stats, outside>>

\* startSpeedTest past its guard: the flag is set, resetTestUI() empties the
\* series, and runDownloadTest runs to its first await.
LaunchSession ==
    /\ \E s \in env.slots : sess[s].pc = "none"
    /\ stats.testsRun < MaxTests
    /\ testData' = resetTestUI
    /\ pushed' = <<>>
    /\ LET superseded == [r \in Sessions |->
                             IF sess[r].pc = "none" THEN sess[r]
                             ELSE [sess[r] EXCEPT !.superseded = TRUE]]
       IN \E throws \in env.throws :
              IF throws
              THEN Caught(superseded, FreeSlot)
              ELSE /\ isTestRunning' = TRUE
                   /\ sess' = [superseded EXCEPT ![FreeSlot].pc = "dlFetch"]
                   /\ op' = "start"
                   /\ UNCHANGED status
    /\ UNCHANGED <<stats, outside>>

\* startSpeedTest without its guard.
startSpeedTest_NoGuard ==
    LaunchSession

\* The click on startTest.
startSpeedTest ==
    IF isTestRunning
    THEN /\ op' = "start"
         /\ UNCHANGED <<isTestRunning, testData, stats, sess, status, pushed, outside>>
    ELSE LaunchSession

\* stopSpeedTest clearing the series as well.
stopSpeedTest_Resets ==
    /\ isTestRunning' = FALSE
    /\ testData' = resetTestUI
    /\ pushed' = <<>>
    /\ op' = "stop"
    /\ UNCHANGED <<stats, sess, status, outside>>

\* stopSpeedTest putting the session statistics back to zero.
stopSpeedTest_ClearsStats ==
    /\ isTestRunning' = FALSE
    /\ stats' = [testsRun |-> 0, totalDownload |-> Rat(0, 1), totalUpload |-> Rat(0, 1),
                 maxDownload |-> 0, maxUpload |-> 0]
    /\ op' = "stop"
    /\ UNCHANGED <<testData, sess, status, pushed, outside>>

\* The click on stopTest.
stopSpeedTest ==
    /\ isTestRunning' = FALSE
    /\ op' = "stop"
    /\ UNCHANGED <<testData, stats, sess, status, pushed, outside>>

\* fetchWithTimeout settles with the network's answer: a response, ok or
\* not, or a rejection.
DownloadFetchSettles(s) ==
    /\ sess[s].pc = "dlFetch"
    /\ \E outcome \in {"ok", "httpError", "networkError"},
          e \in Advance(sess[s].elapsed, 0) :
           /\ sess' = [sess EXCEPT ![s].pc = IF outcome = "ok" THEN "dlBody" ELSE "dlSleep",
                                   ![s].elapsed = e]
           /\ op' = IF outcome = "ok" THEN "resume" ELSE "failed"
    /\ UNCHANGED <<isTestRunning, testData, stats, status, pushed, outside>>

\* DownloadFetchTimeout without the try around the iteration: the rejection
\* leaves the loop and reaches the catch of startSpeedTest.
DownloadFetchTimeout_Aborts(s) ==
    /\ sess[s].pc = "dlFetch"
    /\ Caught(sess, s)
    /\ UNCHANGED <<testData, stats, pushed, outside>>

\* fetchWithTimeout settles with the timer's rejection.
DownloadFetchTimeout(s) ==
    /\ sess[s].pc = "dlFetch"
    /\ \E e \in Advance(sess[s].elapsed, probeTimeout) :
           sess' = [sess EXCEPT ![s].pc = "dlSleep", ![s].elapsed = e]
    /\ op' = "failed"
    /\ UNCHANGED <<isTestRunning, testData, stats, status, pushed, outside>>

\* response.arrayBuffer() settles: with the body, and the sample it gives,
\* or with an error.
DownloadBodyRead(s) ==
    /\ sess[s].pc = "dlBody"
    /\ \E e \in Advance(sess[s].elapsed, 0) :
           \/ \E mbps \in env.mbps :
                  IF Sane(mbps)
                  THEN /\ sess' = [sess EXCEPT ![s].pc = "dlSleep", ![s].elapsed = e,
                                               ![s].speeds = Append(@, mbps)]
                       /\ testData' = updateDownloadSpeed(testData, mbps, 1, TimeLabel)
                       /\ pushed' = Append(pushed, RoundHundredths(mbps, 1))
                       /\ op' = "resume"
                  ELSE /\ sess' = [sess EXCEPT ![s].pc = "dlSleep", ![s].elapsed = e]
                       /\ op' = "rejected"
                       /\ UNCHANGED <<testData, pushed>>
           \/ /\ sess' = [sess EXCEPT ![s].pc = "dlSleep", ![s].elapsed = e]
              /\ op' = "failed"
              /\ UNCHANGED <<testData, pushed>>
    /\ UNCHANGED <<isTestRunning, stats, status, outside>>

\* DownloadSleepOver with a loop condition that reads the clock alone.
DownloadSleepOver_IgnoresFlag(s) ==
    /\ sess[s].pc = "dlSleep"
    /\ \E e \in Advance(sess[s].elapsed, updateInterval) :
           IF e < testDuration
           THEN DownloadIterate(sess, s, e) /\ UNCHANGED <<testData, stats, pushed>>
           ELSE DownloadExit(s)
    /\ UNCHANGED outside

\* DownloadSleepOver resumed before the interval has passed.
DownloadSleepOver_NoDelay(s) ==
    /\ sess[s].pc = "dlSleep"
    /\ \E e \in Advance(sess[s].elapsed, 0) :
           IF e < testDuration /\ isTestRunning
           THEN DownloadIterate(sess, s, e) /\ UNCHANGED <<testData, stats, pushed>>
           ELSE DownloadExit(s)
    /\ UNCHANGED outside

\* The updateInterval sleep at the foot of a download iteration is over.
DownloadSleepOver(s) ==
    /\ sess[s].pc = "dlSleep"
    /\ \E e \in Advance(sess[s].elapsed, updateInterval) :
           IF e < testDuration /\ isTestRunning
           THEN DownloadIterate(sess, s, e) /\ UNCHANGED <<testData, stats, pushed>>
           ELSE DownloadExit(s)
    /\ UNCHANGED outside

\* The 500 ms pause is over: runUploadTest starts.
PauseOver(s) ==
    /\ sess[s].pc = "pause"
    /\ IF 0 < testDuration /\ isTestRunning
       THEN UploadIterate(s, 0)
       ELSE UploadExit(s)
    /\ UNCHANGED outside

UploadFetchSettles(s) ==
    /\ sess[s].pc = "ulFetch"
    /\ \E outcome \in {"ok", "httpError", "networkError"},
          e \in Advance(sess[s].elapsed, 0) :
           /\ sess' = [sess EXCEPT ![s].pc = IF outcome = "ok" THEN "ulBody" ELSE "ulSleep",
                                   ![s].elapsed = e]
           /\ op' = IF outcome = "ok" THEN "resume" ELSE "failed"
    /\ UNCHANGED <<isTestRunning, testData, stats, status, pushed, outside>>

UploadFetchTimeout(s) ==
    /\ sess[s].pc = "ulFetch"
    /\ \E e \in Advance(sess[s].elapsed, probeTimeout) :
           sess' = [sess EXCEPT ![s].pc = "ulSleep", ![s].elapsed = e]
    /\ op' = "failed"
    /\ UNCHANGED <<isTestRunning, testData, stats, status, pushed, outside>>

\* response.text() settles.
UploadBodyRead(s) ==
    /\ sess[s].pc = "ulBody"
    /\ \E e \in Advance(sess[s].elapsed, 0) :
           \/ \E mbps \in env.mbps :
                  IF Sane(mbps)
                  THEN /\ sess' = [sess EXCEPT ![s].pc = "ulSleep", ![s].elapsed = e,
                                               ![s].speeds = Append(@, mbps)]
                       /\ testData' = updateUploadSpeed(testData, mbps, 1)
                       /\ op' = "resume"
                  ELSE /\ sess' = [sess EXCEPT ![s].pc = "ulSleep", ![s].elapsed = e]
                       /\ op' = "rejected"
                       /\ UNCHANGED testData
           \/ /\ sess' = [sess EXCEPT ![s].pc = "ulSleep", ![s].elapsed = e]
              /\ op' = "failed"
              /\ UNCHANGED testData
    /\ UNCHANGED <<isTestRunning, stats, status, pushed, outside>>

UploadSleepOver(s) ==
    /\ sess[s].pc = "ulSleep"
    /\ \E e \in Advance(sess[s].elapsed, updateInterval) :
           IF e < testDuration /\ isTestRunning
           THEN UploadIterate(s, e)
           ELSE UploadExit(s)
    /\ UNCHANGED outside

Next ==
    \/ startSpeedTest
    \/ stopSpeedTest
    \/ \E s \in Sessions : DownloadFetchSettles(s)
    \/ \E s \in Sessions : DownloadFetchTimeout(s)
    \/ \E s \in Sessions : DownloadBodyRead(s)
    \/ \E s \in Sessions : DownloadSleepOver(s)
    \/ \E s \in Sessions : PauseOver(s)
    \/ \E s \in Sessions : UploadFetchSettles(s)
    \/ \E s \in Sessions : UploadFetchTimeout(s)
    \/ \E s \in Sessions : UploadBodyRead(s)
    \/ \E s \in Sessions : UploadSleepOver(s)

Spec ==
    Init /\ [][Next]_vars

\* Timers fire; the network owes nothing.
LiveSpec ==
    /\ Spec
    /\ \A s \in Sessions :
           /\ WF_vars(DownloadFetchTimeout(s))
           /\ WF_vars(DownloadSleepOver(s))
           /\ WF_vars(PauseOver(s))
           /\ WF_vars(UploadFetchTimeout(s))
           /\ WF_vars(UploadSleepOver(s))

\* ------------------------------------------------------ measureLatency
\* const testCount = 3
testCount == 3
\* The deadline of the favicon request, in ms.
latencyTimeout == 3000

\* performance.now() - start, in ms, of a favicon request the network
\* answered or refused.
FetchTimes ==
    {20, 49, 50, 80, 100, 200}

\* 50 + Math.random() * 50, in ms
Synthetic ==
    {50, 99}

\* What the three probes of one trial meet: each works or fails.
Conditions ==
    [fetch : {"ok", "fail"}, image : {"ok", "fail"}, webrtc : {"ok", "fail"}]

\* measureLatencyWithFetch: the catch around fetchWithTimeout swallows the
\* rejection, and the elapsed time is returned either way.
measureLatencyWithFetch(outcome, ms) ==
    [threw |-> FALSE, latency |-> ms]

\* measureLatencyWithImage: load and error both resolve, the timer rejects.
measureLatencyWithImage(outcome, ms) ==
    IF outcome = "ok" THEN [threw |-> FALSE, latency |-> ms]
                      ELSE [threw |-> TRUE, latency |-> 0]

\* measureLatencyWithWebRTC: a candidate resolves, the timer or a failed
\* offer rejects.
measureLatencyWithWebRTC(outcome, ms) ==
    IF outcome = "ok" THEN [threw |-> FALSE, latency |-> ms]
                      ELSE [threw |-> TRUE, latency |-> 0]

\* The nested try/catch of one trial: the latency it pushes.
TrialLatency(c, ms, synthetic) ==
    LET r1 == measureLatencyWithFetch(c.fetch, ms)
        r2 == measureLatencyWithImage(c.image, ms)
        r3 == measureLatencyWithWebRTC(c.webrtc, ms)
    IN IF ~r1.threw THEN r1.latency
       ELSE IF ~r2.threw THEN r2.latency
       ELSE IF ~r3.threw THEN r3.latency
       ELSE synthetic

\* The nested try/catch of one trial: the methods it calls, in order.
TrialTried(c, ms) ==
    LET r1 == measureLatencyWithFetch(c.fetch, ms)
        r2 == measureLatencyWithImage(c.image, ms)
        r3 == measureLatencyWithWebRTC(c.webrtc, ms)
    IN IF ~r1.threw THEN <<"fetch">>
       ELSE IF ~r2.threw THEN <<"fetch", "image">>
       ELSE IF ~r3.threw THEN <<"fetch", "image", "webrtc">>
       ELSE <<"fetch", "image", "webrtc", "synthetic">>

\* Classification with the boundaries let into the better band.
LatencyBand_Inclusive(sum, len) ==
    IF sum <= 50 * len THEN "excellent"
    ELSE IF sum <= 100 * len THEN "good"
    ELSE IF sum <= 200 * len THEN "fair"
    ELSE "poor"

\* The CSS class chosen for avgLatency = sum / len.
LatencyBand(sum, len) ==
    IF sum < 50 * len THEN "excellent"
    ELSE IF sum < 100 * len THEN "good"
    ELSE IF sum < 200 * len THEN "fair"
    ELSE "poor"

\* Math.round(sum / len)
RoundDiv(sum, len) ==
    (2 * sum + len) \div (2 * len)

\* if (connection.downlink): the hint is there and is not 0
Truthy(c) ==
    c.hasDownlink /\ c.downlink # 0

\* analyzeConnectionQuality: the signal-strength and quality texts for the
\* connection hints c (downlink in tenths of a Mbps; 0 is falsy).
analyzeConnectionQuality(c) ==
    IF ~c.present THEN [signalStrength |-> "Unknown", networkQuality |-> "Analyzing..."]
    ELSE IF Truthy(c)
    THEN IF c.downlink >= 100
         THEN [signalStrength |-> "Excellent (>10 Mbps)", networkQuality |-> "Excellent"]
         ELSE IF c.downlink >= 50
         THEN [signalStrength |-> "Good (5-10 Mbps)", networkQuality |-> "Good"]
         ELSE IF c.downlink >= 10
         THEN [signalStrength |-> "Fair (1-5 Mbps)", networkQuality |-> "Fair"]
         ELSE [signalStrength |-> "Poor (<1 Mbps)", networkQuality |-> "Poor"]
    ELSE CASE c.effectiveType = "4g"
                -> [signalStrength |-> "Good (4G)", networkQuality |-> "Good"]
           [] c.effectiveType = "3g"
                -> [signalStrength |-> "Fair (3G)", networkQuality |-> "Fair"]
           [] c.effectiveType = "2g"
                -> [signalStrength |-> "Poor (2G)", networkQuality |-> "Poor"]
           [] c.effectiveType = "slow-2g"
                -> [signalStrength |-> "Very Poor (Slow 2G)", networkQuality |-> "Very Poor"]
           [] OTHER
                -> [signalStrength |-> "Unknown", networkQuality |-> "Unknown"]

\* The head of the trial loop, l being the locals as the caller leaves them:
\* the next favicon request is issued, or the loop is left, the average is
\* shown and classified, measureLatency returns and loadNetworkInfo goes on
\* to analyzeConnectionQuality() and its success notification.
LatLoopHead(l) ==
    IF Len(l.measurements) < testCount
    THEN /\ lat' = [l EXCEPT !.pc = "probe"]
         /\ UNCHANGED net
    ELSE LET ms == l.measurements
             q == analyzeConnectionQuality(net.conn)
         IN /\ lat' = IF Len(ms) = 0
                      THEN [l EXCEPT !.pc = "done", !.text = "Unable to measure"]
                      ELSE [l EXCEPT !.pc = "done", !.text = "ms",
                                     !.rounded = RoundDiv(Sum(ms), Len(ms)),
                                     !.band = LatencyBand(Sum(ms), Len(ms))]
            /\ net' = [net EXCEPT !.pc = "done",
                                  !.signalStrength = q.signalStrength,
                                  !.networkQuality = q.networkQuality,
                                  !.successes = @ + 1]

\* LatTrialDone with the 200 ms sleep after every trial, the last included.
LatTrialDone_AlwaysWaits(latency, c, tried) ==
    LET allFailed == c.fetch = "fail" /\ c.image = "fail" /\ c.webrtc = "fail"
        l == [lat EXCEPT !.measurements = Append(@, latency),
                         !.down = @ /\ allFailed,
                         !.cond = c, !.tried = tried]
    IN IF Len(lat.measurements) < testCount
       THEN /\ lat' = [l EXCEPT !.pc = "wait", !.waits = @ + 1]
            /\ UNCHANGED net
       ELSE LatLoopHead(l)

\* The end of a trial: the latency is pushed and, unless the trial was the
\* last, the 200 ms sleep begins.
LatTrialDone(latency, c, tried) ==
    LET allFailed == c.fetch = "fail" /\ c.image = "fail" /\ c.webrtc = "fail"
        l == [lat EXCEPT !.measurements = Append(@, latency),
                         !.down = @ /\ allFailed,
                         !.cond = c, !.tried = tried]
    IN IF Len(lat.measurements) < testCount - 1
       THEN /\ lat' = [l EXCEPT !.pc = "wait", !.waits = @ + 1]
            /\ UNCHANGED net
       ELSE LatLoopHead(l)

\* The favicon request is answered or refused by the network.
LatFetchSettles ==
    /\ lat.pc = "probe"
    /\ \E c \in Conditions, ms \in FetchTimes, synthetic \in Synthetic :
           LatTrialDone(TrialLatency(c, ms, synthetic), c, TrialTried(c, ms))
    /\ UNCHANGED <<speedTest, scn, fwt, dns, page>>

\* The 3000 ms timer of the favicon request fires first.
LatFetchTimeout ==
    /\ lat.pc = "probe"
    /\ \E c \in {x \in Conditions : x.fetch = "fail"}, synthetic \in Synthetic :
           LatTrialDone(TrialLatency(c, latencyTimeout, synthetic), c,
                        TrialTried(c, latencyTimeout))
    /\ UNCHANGED <<speedTest, scn, fwt, dns, page>>

\* The 200 ms sleep between two trials is over.
LatWaitOver ==
    /\ lat.pc = "wait"
    /\ LatLoopHead(lat)
    /\ UNCHANGED <<speedTest, scn, fwt, dns, page>>

\* ------------------------------------------------------ loadNetworkInfo
\* navigator.connection as a run can find it: absent, or present with its
\* effective type and, where the browser gives one (hasDownlink), its
\* downlink hint in tenths of a Mbps.
Connections ==
    {[present |-> FALSE, hasDownlink |-> FALSE, downlink |-> 0, effectiveType |-> "none"]}
    \cup [present : {TRUE}, hasDownlink : {FALSE}, downlink : {0},
          effectiveType : {"4g", "3g", "2g", "slow-2g", "5g"}]
    \cup [present : {TRUE}, hasDownlink : {TRUE}, downlink : {0},
          effectiveType : {"4g", "5g"}]
    \cup [present : {TRUE}, hasDownlink : {TRUE},
          downlink : {5, 9, 10, 49, 50, 99, 100}, effectiveType : {"4g"}]

\* handleNetworkInfoError: one error notification, then the eight listed
\* fields are set to 'Error loading'.
handleNetworkInfoError(n, cause) ==
    [n EXCEPT !.pc = "failed", !.cause = cause, !.errors = @ + 1,
              !.publicIP = "Error loading", !.location = "Error loading",
              !.isp = "Error loading", !.localIP = "Error loading",
              !.networkName = "Error loading", !.connectionSpeed = "Error loading",
              !.signalStrength = "Error loading", !.networkQuality = "Error loading"]

\* getNetworkConnectionInfo, getNetworkName included
getNetworkConnectionInfo(n) ==
    IF n.conn.present
    THEN [n EXCEPT !.connectionType = "hints", !.networkName = "name",
                   !.connectionSpeed = IF Truthy(n.conn) THEN "estimated"
                                                              ELSE "Testing..."]
    ELSE [n EXCEPT !.connectionType = "Connection info not available",
                   !.networkName = "Not available",
                   !.connectionSpeed = "Not available"]

\* getLocalIP has returned, n being the fields as it leaves them: the
\* connection hints are read and the public-IP request is issued.
AfterLocalIP(n) ==
    /\ net' = [getNetworkConnectionInfo(n) EXCEPT !.pc = "ipFetch"]
    /\ UNCHANGED lat

\* loadNetworkInfo() is called: the loading notification, 'Detecting...',
\* and the peer connection is created; where the browser has none, the
\* fallback request is issued at once.
loadNetworkInfo ==
    /\ net.pc = "idle"
    /\ \E conn \in Connections, rtc \in BOOLEAN :
           net' = [net EXCEPT !.conn = conn, !.localIP = "Detecting...",
                              !.pc = IF rtc THEN "rtc" ELSE "fallbackFetch"]
    /\ UNCHANGED <<speedTest, lat, scn, fwt, dns, page>>

\* The peer connection yields a usable candidate, or its offer fails.
LocalIPSettles ==
    /\ net.pc = "rtc"
    /\ \E outcome \in {"candidate", "offerError"} :
           IF outcome = "candidate"
           THEN AfterLocalIP([net EXCEPT !.localIP = "address"])
           ELSE net' = [net EXCEPT !.pc = "fallbackFetch"] /\ UNCHANGED lat
    /\ UNCHANGED <<speedTest, scn, fwt, dns, page>>

\* The 5000 ms timer of getLocalIP fires: getLocalIPFallback is called.
LocalIPTimeout ==
    /\ net.pc = "rtc"
    /\ net' = [net EXCEPT !.pc = "fallbackFetch"]
    /\ UNCHANGED <<speedTest, lat, scn, fwt, dns, page>>

\* The fetch of getLocalIPFallback, which has no timer, settles.
FallbackFetchSettles ==
    /\ net.pc = "fallbackFetch"
    /\ \E outcome \in {"ok", "error"} :
           IF outcome = "ok"
           THEN net' = [net EXCEPT !.pc = "fallbackJson"] /\ UNCHANGED lat
           ELSE AfterLocalIP([net EXCEPT !.localIP = "Unable to detect"])
    /\ UNCHANGED <<speedTest, scn, fwt, dns, page>>

\* response.json() of getLocalIPFallback settles.
FallbackJsonSettles ==
    /\ net.pc = "fallbackJson"
    /\ \E outcome \in {"ok", "error"} :
           AfterLocalIP([net EXCEPT !.localIP = IF outcome = "ok"
                                                THEN "Behind NAT/Firewall"
                                                ELSE "Unable to detect"])
    /\ UNCHANGED <<speedTest, scn, fwt, dns, page>>

\* The public-IP request settles with the network's answer.
IpFetchSettles ==
    /\ net.pc = "ipFetch"
    /\ \E outcome \in {"ok", "error"} :
           net' = IF outcome = "ok" THEN [net EXCEPT !.pc = "ipJson"]
                                    ELSE handleNetworkInfoError(net, "ipFetch")
    /\ UNCHANGED <<speedTest, lat, scn, fwt, dns, page>>

\* The 5000 ms timer of the public-IP request fires first.
IpFetchTimeout ==
    /\ net.pc = "ipFetch"
    /\ net' = handleNetworkInfoError(net, "ipTimeout")
    /\ UNCHANGED <<speedTest, lat, scn, fwt, dns, page>>

\* ipResponse.json() settles: the address is shown and the geolocation
\* request is issued, or the parse error reaches the catch.
IpJsonSettles ==
    /\ net.pc = "ipJson"
    /\ \E outcome \in {"ok", "error"} :
           net' = IF outcome = "ok"
                  THEN [net EXCEPT !.publicIP = "address", !.pc = "geoFetch"]
                  ELSE handleNetworkInfoError(net, "ipJson")
    /\ UNCHANGED <<speedTest, lat, scn, fwt, dns, page>>

\* The geolocation request settles with the network's answer.
GeoFetchSettles ==
    /\ net.pc = "geoFetch"
    /\ \E outcome \in {"ok", "error"} :
           net' = IF outcome = "ok" THEN [net EXCEPT !.pc = "geoJson"]
                                    ELSE handleNetworkInfoError(net, "geoFetch")
    /\ UNCHANGED <<speedTest, lat, scn, fwt, dns, page>>

\* The 5000 ms timer of the geolocation request fires first.
GeoFetchTimeout ==
    /\ net.pc = "geoFetch"
    /\ net' = handleNetworkInfoError(net, "geoTimeout")
    /\ UNCHANGED <<speedTest, lat, scn, fwt, dns, page>>

\* detailResponse.json() settles: updateNetworkInfo() fills location and ISP
\* and measureLatency() runs to its first favicon request, or the parse error
\* reaches the catch.
GeoJsonSettles ==
    /\ net.pc = "geoJson"
    /\ \E outcome \in {"ok", "error"} :
           IF outcome = "ok"
           THEN /\ net' = [net EXCEPT !.location = "value", !.isp = "value",
                                      !.pc = "latency"]
                /\ lat' = [lat EXCEPT !.text = "Testing...", !.pc = "probe"]
           ELSE /\ net' = handleNetworkInfoError(net, "geoJson")
                /\ UNCHANGED lat
    /\ UNCHANGED <<speedTest, scn, fwt, dns, page>>

InfoNext ==
    \/ loadNetworkInfo
    \/ LocalIPSettles
    \/ LocalIPTimeout
    \/ FallbackFetchSettles
    \/ FallbackJsonSettles
    \/ IpFetchSettles
    \/ IpFetchTimeout
    \/ IpJsonSettles
    \/ GeoFetchSettles
    \/ GeoFetchTimeout
    \/ GeoJsonSettles
    \/ LatFetchSettles
    \/ LatFetchTimeout
    \/ LatWaitOver

InfoSpec ==
    Init /\ [][InfoNext]_vars

\* Timers fire; the network and the peer connection owe nothing.
LiveInfoSpec ==
    /\ InfoSpec
    /\ WF_vars(LocalIPTimeout)
    /\ WF_vars(IpFetchTimeout)
    /\ WF_vars(GeoFetchTimeout)
    /\ WF_vars(LatFetchTimeout)
    /\ WF_vars(LatWaitOver)

\* ------------------------------------------- runDownloadTest, timed in ms
\* One call of runDownloadTest() with the clock in milliseconds and a probe
\* server of fixed behaviour: every request is answered with a body of
\* cfg.bytes bytes, read cfg.probeMs after the request was issued.  The
\* interval sleep lasts cfg.intervalMs, or longer by one of Lateness when the
\* timer fires late.  Throughput is an exact fraction of a Mbps here.
Scenarios ==
    [durationMs : {500, 1000}, intervalMs : {200}, probeMs : {50, 100},
     bytes : {50000, 100000}]

Lateness ==
    {0, 100}

\* (bytes * 8) / (1024 * 1024 * seconds), seconds = ms / 1000
Mbps(bytes, ms) ==
    Rat(bytes * 8 * 1000, 1024 * 1024 * ms)

\* mbps > 0 && mbps < 1000 on a fraction
SaneRat(r) ==
    r.n > 0 /\ r.n < 1000 * r.d

RECURSIVE SumRat(_)
\* array.reduce((a, b) => a + b, 0) on fractions
SumRat(seq) ==
    IF seq = <<>> THEN Rat(0, 1) ELSE RatAdd(Head(seq), SumRat(Tail(seq)))

\* sum / length
MeanRat(seq) ==
    Rat(SumRat(seq).n, SumRat(seq).d * Len(seq))

TimedInit ==
    /\ isTestRunning = TRUE
    /\ testData = resetTestUI
    /\ stats = [testsRun |-> 0, totalDownload |-> Rat(0, 1), totalUpload |-> Rat(0, 1),
                maxDownload |-> 0, maxUpload |-> 0]
    /\ sess = [s \in Sessions |-> NoSession]
    /\ status = "none"
    /\ op = "init"
    /\ pushed = <<>>
    /\ env \in {e \in Environments : e.name = "solo"}
    /\ net = NetIdle
    /\ lat = LatIdle
    /\ fwt = [c \in Calls |-> FwtIdle]
    /\ dns = DnsIdle
    /\ page = PageIdle
    /\ \E cfg \in Scenarios :
           scn = [pc |-> "called", cfg |-> cfg, now |-> 0, testStart |-> 0,
                  speeds |-> <<>>, late |-> FALSE]

\* The loop condition read at time nw, and what follows it: the next probe
\* is issued, or the loop is left and the mean of the samples is published.
TimedLoopHead(nw, goesOn, late) ==
    IF goesOn
    THEN /\ scn' = [scn EXCEPT !.pc = "fetch", !.now = nw, !.testStart = nw,
                                !.late = late]
         /\ UNCHANGED <<testData, pushed>>
    ELSE LET sp == scn.speeds
             avgSpeed == MeanRat(sp)
         IN /\ scn' = [scn EXCEPT !.pc = "done", !.now = nw, !.late = late]
            /\ testData' = IF Len(sp) > 0
                            THEN updateDownloadSpeed(testData, avgSpeed.n * 1000,
                                                     avgSpeed.d, TimeLabel)
                            ELSE testData
            /\ pushed' = IF Len(sp) > 0
                          THEN Append(pushed, RoundHundredths(avgSpeed.n * 1000, avgSpeed.d))
                          ELSE pushed

\* runDownloadTest() is called at time 0.
TimedStart ==
    /\ scn.pc = "called"
    /\ TimedLoopHead(0, 0 < scn.cfg.durationMs /\ isTestRunning, FALSE)
    /\ UNCHANGED <<isTestRunning, stats, sess, status, op, env, net, lat, fwt, dns, page>>

\* fetchWithTimeout resolves with the response.
TimedFetchSettles ==
    /\ scn.pc = "fetch"
    /\ scn' = [scn EXCEPT !.pc = "body"]
    /\ UNCHANGED <<speedTest, net, lat, fwt, dns, page>>

\* response.arrayBuffer() resolves probeMs after the request was issued; the
\* sample is computed, checked and recorded, and the interval sleep begins.
TimedBodyRead ==
    /\ scn.pc = "body"
    /\ LET testEnd == scn.testStart + scn.cfg.probeMs
           mbps == Mbps(scn.cfg.bytes, testEnd - scn.testStart)
       IN IF SaneRat(mbps)
          THEN /\ scn' = [scn EXCEPT !.pc = "sleep", !.now = testEnd,
                                      !.speeds = Append(@, mbps)]
               /\ testData' = updateDownloadSpeed(testData, mbps.n * 1000, mbps.d,
                                                   TimeLabel)
               /\ pushed' = Append(pushed, RoundHundredths(mbps.n * 1000, mbps.d))
          ELSE /\ scn' = [scn EXCEPT !.pc = "sleep", !.now = testEnd]
               /\ UNCHANGED <<testData, pushed>>
    /\ UNCHANGED <<isTestRunning, stats, sess, status, op, env, net, lat, fwt, dns, page>>

\* TimedSleepOver with <= in the loop condition.
TimedSleepOver_Inclusive ==
    /\ scn.pc = "sleep"
    /\ \E l \in Lateness :
           LET nw == scn.now + scn.cfg.intervalMs + l
           IN TimedLoopHead(nw, nw <= scn.cfg.durationMs /\ isTestRunning,
                            scn.late \/ l > 0)
    /\ UNCHANGED <<isTestRunning, stats, sess, status, op, env, net, lat, fwt, dns, page>>

\* The interval sleep is over and the loop condition is read.
TimedSleepOver ==
    /\ scn.pc = "sleep"
    /\ \E l \in Lateness :
           LET nw == scn.now + scn.cfg.intervalMs + l
           IN TimedLoopHead(nw, nw < scn.cfg.durationMs /\ isTestRunning,
                            scn.late \/ l > 0)
    /\ UNCHANGED <<isTestRunning, stats, sess, status, op, env, net, lat, fwt, dns, page>>

TimedNext ==
    \/ TimedStart
    \/ TimedFetchSettles
    \/ TimedBodyRead
    \/ TimedSleepOver

TimedSpec ==
    TimedInit /\ [][TimedNext]_vars

\* ------------------------------------------------------- fetchWithTimeout
\* Promise.race: a settlement of one of the raced promises settles the
\* returned promise if that is still pending and is ignored otherwise.
Race(f, outcome) ==
    IF f.result = "pending"
    THEN [f EXCEPT !.result = outcome, !.settled = @ + 1]
    ELSE f

\* fetchWithTimeout(url, t) is called: fetch() is issued and the timer set.
fetchWithTimeout(c) ==
    /\ ~fwt[c].called
    /\ fwt' = [fwt EXCEPT ![c].called = TRUE]
    /\ UNCHANGED <<speedTest, net, lat, scn, dns, page>>

\* fetch() settles, with a response or with an error.
FwtFetchSettles(c) ==
    /\ fwt[c].called
    /\ fwt[c].fetch = "pending"
    /\ \E outcome \in {"response", "error"} :
           fwt' = [fwt EXCEPT ![c] = Race([@ EXCEPT !.fetch = outcome], outcome)]
    /\ UNCHANGED <<speedTest, net, lat, scn, dns, page>>

\* FwtTimerFires with a timer that rejects the returned promise whenever it
\* fires.
FwtTimerFires_Overrides(c) ==
    /\ fwt[c].called
    /\ fwt[c].timer = "pending"
    /\ fwt' = [fwt EXCEPT ![c].timer = "fired", ![c].result = "timeout",
                          ![c].settled = @ + 1]
    /\ UNCHANGED <<speedTest, net, lat, scn, dns, page>>

\* The timer fires, t ms after the call: reject(new Error('timeout')).
FwtTimerFires(c) ==
    /\ fwt[c].called
    /\ fwt[c].timer = "pending"
    /\ fwt' = [fwt EXCEPT ![c] = Race([@ EXCEPT !.timer = "fired"], "timeout")]
    /\ UNCHANGED <<speedTest, net, lat, scn, dns, page>>

FetchNext ==
    \/ \E c \in Calls : fetchWithTimeout(c)
    \/ \E c \in Calls : FwtFetchSettles(c)
    \/ \E c \in Calls : FwtTimerFires(c)

FetchSpec ==
    Init /\ [][FetchNext]_vars

\* ---------------------------------------------------------------- testDNS
\* The names of the resolvers, in the order of the dnsServers array.
dnsServers ==
    <<"Google DNS", "Cloudflare DNS", "OpenDNS">>

\* What a resolver's answer can be: the rounded milliseconds of a 2xx
\* response, or the status of another response.
DnsLatencies ==
    {12, 30}

DnsStatuses ==
    {404, 500}

\* The head of the for loop, d being the run after the entry of the last
\* iteration was pushed: the request for the next resolver is sent, or the
\* results are written to the page and the notification is shown.
DnsLoopHead(d) ==
    IF d.i < Len(dnsServers)
    THEN [d EXCEPT !.pc = "fetch", !.i = @ + 1, !.issued = Append(@, d.i + 1)]
    ELSE [d EXCEPT !.pc = "done", !.shown = "results", !.status = "completed"]

\* The click on dnsTest: 'Testing DNS servers...' and the first request.
testDNS ==
    /\ dns.pc = "idle"
    /\ dns' = DnsLoopHead([dns EXCEPT !.shown = "Testing DNS servers..."])
    /\ UNCHANGED <<speedTest, net, lat, scn, fwt, page>>

\* The request settles: a 2xx response pushes the latency, another response
\* its status, a rejection is caught and pushes 'Timeout/Error'.
DnsFetchSettles ==
    /\ dns.pc = "fetch"
    /\ \E entry \in [text : {"ms"}, value : DnsLatencies]
                     \cup [text : {"Error"}, value : DnsStatuses]
                     \cup [text : {"Timeout/Error"}, value : {0}] :
           dns' = DnsLoopHead([dns EXCEPT !.results =
                      Append(@, [name |-> dnsServers[dns.i], text |-> entry.text,
                                 value |-> entry.value])])
    /\ UNCHANGED <<speedTest, net, lat, scn, fwt, page>>

\* DnsFetchTimeout with the try around the loop instead of inside it.
DnsFetchTimeout_Aborts ==
    /\ dns.pc = "fetch"
    /\ dns' = [dns EXCEPT !.pc = "done", !.shown = "results", !.status = "completed",
                          !.results = Append(@, [name |-> dnsServers[dns.i],
                                                 text |-> "Timeout/Error", value |-> 0])]
    /\ UNCHANGED <<speedTest, net, lat, scn, fwt, page>>

\* The 3000 ms timer of the request fires first: the rejection is caught.
DnsFetchTimeout ==
    /\ dns.pc = "fetch"
    /\ dns' = DnsLoopHead([dns EXCEPT !.results =
                   Append(@, [name |-> dnsServers[dns.i], text |-> "Timeout/Error",
                              value |-> 0])])
    /\ UNCHANGED <<speedTest, net, lat, scn, fwt, page>>

\* ------------------------------------- checkConnection, scan and export
\* The call of checkConnection() in initialize(): where the browser has
\* navigator.connection, the type is shown and a 'change' listener added.
checkConnection ==
    /\ page.connection = "unread"
    /\ \E present \in BOOLEAN :
           page' = [page EXCEPT !.connection = IF present THEN "present" ELSE "absent",
                                !.listeners = IF present THEN 1 ELSE 0]
    /\ UNCHANGED <<speedTest, net, lat, scn, fwt, dns>>

\* The browser dispatches 'change': every listener registered before the
\* dispatch runs once, calling checkConnection(), which adds a listener,
\* and showStatus().
ConnectionChange ==
    /\ page.connection = "present"
    /\ page.changes < MaxChanges
    /\ page' = [page EXCEPT !.changes = @ + 1,
                            !.rechecks = page.listeners,
                            !.notified = page.listeners,
                            !.listeners = @ + page.listeners]
    /\ UNCHANGED <<speedTest, net, lat, scn, fwt, dns>>

\* The click on scanNetworks, which the run disables until it is over.
scanAvailableNetworks ==
    /\ page.scan # "scanning"
    /\ page' = [page EXCEPT !.scan = "scanning"]
    /\ UNCHANGED <<speedTest, net, lat, scn, fwt, dns>>

\* The 2000 ms sleep of the scan is over: the browser-limitation notice.
ScanSleepOver ==
    /\ page.scan = "scanning"
    /\ page' = [page EXCEPT !.scan = "shown"]
    /\ UNCHANGED <<speedTest, net, lat, scn, fwt, dns>>

\* exportResults handing out the series and emptying them.
exportResults_Clears ==
    /\ page' = [page EXCEPT !.exported = TRUE]
    /\ testData' = resetTestUI
    /\ UNCHANGED <<isTestRunning, stats, sess, status, op, pushed, env>>
    /\ UNCHANGED <<net, lat, scn, fwt, dns>>

\* exportResults(): testData and stats are read and serialised to a file.
exportResults ==
    /\ page' = [page EXCEPT !.exported = TRUE]
    /\ UNCHANGED <<speedTest, net, lat, scn, fwt, dns>>

PageNext ==
    \/ testDNS
    \/ DnsFetchSettles
    \/ DnsFetchTimeout
    \/ checkConnection
    \/ ConnectionChange
    \/ scanAvailableNetworks
    \/ ScanSleepOver
    \/ exportResults

PageSpec ==
    Init /\ [][PageNext]_vars

\* ------------------------------------------- the speed test and the rest
\* The environment of a speed test that runs beside the other operations
\* of the page: one invocation at a time, one throughput, no thrown error.
AppEnvironment ==
    [name |-> "app", mbps |-> {1004}, slots |-> {1}, throws |-> {FALSE}]

AppInit ==
    /\ isTestRunning = FALSE
    /\ testData = resetTestUI
    /\ stats = [testsRun |-> 0, totalDownload |-> Rat(0, 1), totalUpload |-> Rat(0, 1),
                maxDownload |-> 0, maxUpload |-> 0]
    /\ sess = [s \in Sessions |-> NoSession]
    /\ status = "none"
    /\ op = "init"
    /\ pushed = <<>>
    /\ env = AppEnvironment
    /\ net = NetIdle
    /\ lat = LatIdle
    /\ scn = ScnIdle
    /\ fwt = [c \in Calls |-> FwtIdle]
    /\ dns = DnsIdle
    /\ page = PageIdle

\* What a run of loadNetworkInfo() meets beside a speed test: a connection
\* with a downlink of 5 Mbps, and favicon requests answered in 50 ms.
AppInputs ==
    /\ net'.pc = "idle" \/ net'.conn.downlink = 50
    /\ \A k \in DOMAIN lat'.measurements : lat'.measurements[k] = 50
    /\ lat'.cond.image = "ok" /\ lat'.cond.webrtc = "ok"

\* A step of loadNetworkInfo() or measureLatency(), in a behaviour whose
\* only operation beside the speed test is that run.
AppInfo ==
    /\ dns = DnsIdle /\ page = PageIdle
    /\ InfoNext
    /\ AppInputs

\* A step of testDNS(), likewise.
AppDns ==
    /\ net = NetIdle /\ page = PageIdle
    /\ \/ testDNS
       \/ DnsFetchSettles
       \/ DnsFetchTimeout

\* A connection change, a step of the network scan or an export, likewise.
AppPage ==
    /\ net = NetIdle /\ dns = DnsIdle
    /\ \/ checkConnection
       \/ ConnectionChange
       \/ scanAvailableNetworks
       \/ ScanSleepOver
       \/ exportResults

AppNext ==
    \/ Next
    \/ AppInfo
    \/ AppDns
    \/ AppPage

AppSpec ==
    AppInit /\ [][AppNext]_vars

\* ------------------------------------------------------------------ claims
FetchPcs ==
    {"dlFetch", "ulFetch"}

DownloadPcs ==
    {"dlFetch", "dlBody", "dlSleep"}

UploadPcs ==
    {"ulFetch", "ulBody", "ulSleep"}

\* p <= q for fractions with positive denominators
RatLeq(p, q) ==
    p.n * q.d <= q.n * p.d

\* The last n elements of seq (all of it when it is shorter).
LastN(seq, n) ==
    SubSeq(seq, Len(seq) - Min(Len(seq), n) + 1, Len(seq))

\* C1: a startSpeedTest() call made while isTestRunning is true changes
\* nothing: the flag stays true, the series are not reset, no invocation is
\* launched or moved, and the statistics and the notification stay.
C1_StartWhileRunningIsNoOp ==
    [][(op' = "start" /\ isTestRunning)
         => UNCHANGED <<isTestRunning, testData, stats, sess, status, pushed>>]_vars

\* A start call has just been made on a running test whose series hold data.
C1_Witness ==
    op = "start" /\ isTestRunning /\ Len(testData.download) > 0 /\ Len(testData.upload) > 0

\* C2: stopSpeedTest(), clicked or run by the finally of startSpeedTest,
\* always ends with isTestRunning false; clicked while the flag is already
\* false it leaves the series and the statistics as they are.
C2_StopIsIdempotent ==
    [][/\ (\/ op' \in {"stop", "throw"}
           \/ \E s \in Sessions : sess[s].pc # "none" /\ sess'[s].pc = "none")
          => ~isTestRunning'
       /\ (op' = "stop" /\ ~isTestRunning)
          => UNCHANGED <<isTestRunning, testData, stats>>]_vars

\* Stop has just been clicked on an idle analyzer that holds a finished test.
C2_Witness ==
    /\ op = "stop"
    /\ \A s \in Sessions : sess[s].pc = "none"
    /\ status = "completed"
    /\ Len(testData.download) > 0
    /\ stats.testsRun > 0

\* C3: an error thrown by a step of a started session is caught inside
\* startSpeedTest: the failure notification is shown, nothing else is, the
\* invocation is over and isTestRunning is false.
C3_ErrorsAreCaught ==
    [][op' = "throw"
         => /\ status' = "failed"
            /\ ~isTestRunning'
            /\ \A s \in Sessions : sess'[s].pc \in {sess[s].pc, "none"}
            /\ \E s \in Sessions : sess'[s] = NoSession]_vars

\* An error was thrown once the upload phase had published samples.
C3_Witness ==
    op = "throw" /\ Len(testData.upload) > 0 /\ status = "failed" /\ ~isTestRunning

\* C4: every started session returns to Idle, timers firing, whatever the
\* network does.
C4_SessionAlwaysEnds ==
    isTestRunning ~> ~isTestRunning

\* C5: an invocation goes through reset, download loop, pause, upload loop,
\* statistics and Idle in that order: it enters the download loop only from
\* a launch that has just emptied the series, the pause only from the foot of
\* the download loop, the upload loop only from the pause, and the statistics
\* change only in the step that leaves the pause or the upload loop and ends
\* the invocation with isTestRunning false.
C5_PhaseOrder ==
    [][/\ \A s \in Sessions :
              LET p == sess[s].pc
                  q == sess'[s].pc
              IN /\ (p = "none" /\ q # "none")
                    => q = "dlFetch" /\ testData' = resetTestUI /\ isTestRunning'
                 /\ (q \in DownloadPcs /\ p # q) => p \in DownloadPcs \cup {"none"}
                 /\ (q = "pause" /\ p # q) => p = "dlSleep"
                 /\ (q \in UploadPcs /\ p # q) => p \in UploadPcs \cup {"pause"}
                 /\ (q = "ulFetch" /\ p # q) => p \in {"pause", "ulSleep"}
       /\ stats' # stats
          => /\ ~isTestRunning'
             /\ \E s \in Sessions :
                    sess[s].pc \in {"pause", "ulSleep"} /\ sess'[s].pc = "none"]_vars

\* A whole session has run: both phases published and the test was counted.
C5_Witness ==
    /\ status = "completed"
    /\ stats.testsRun = 1
    /\ Len(testData.download) > 0
    /\ Len(testData.upload) > 0
    /\ \A s \in Sessions : sess[s].pc = "none"

\* C6: while isTestRunning is false, no live invocation begins a probe
\* iteration, in either loop; the stop click itself touches no invocation,
\* so a probe in flight goes on.
C6_NoNewProbeAfterStop ==
    [][/\ \A s \in Sessions :
              (~isTestRunning /\ sess[s].pc \notin FetchPcs \cup {"none"})
                  => sess'[s].pc \notin FetchPcs
       /\ op' = "stop" => sess' = sess]_vars

\* With one invocation alive and the flag false, a probe that was in flight
\* has settled and the download loop, its time not yet up, is at its sleep.
C6_Witness ==
    /\ env.name = "solo"
    /\ ~isTestRunning
    /\ op = "resume"
    /\ sess[1].pc = "dlSleep"
    /\ sess[1].elapsed = 0

\* C7: a step of an invocation that a later start has superseded never
\* changes the series.
C7_NoStaleWrite ==
    [][\A s \in Sessions :
           (sess[s].superseded /\ sess'[s] # sess[s]) => testData' = testData]_vars

\* C8: after N download pushes since the last reset, download and timestamps
\* hold the last min(N, maxDataPoints) pushed values and labels, in push order.
C8_RollingWindow ==
    LET N == Len(pushed)
        k == Min(N, maxDataPoints)
    IN /\ testData.download = LastN(pushed, maxDataPoints)
       /\ testData.timestamps = [i \in 1..k |-> N - k + i]
       /\ Len(testData.download) = k

\* More values were pushed than the window holds, and the window shows two
\* different values.
C8_Witness ==
    /\ Len(pushed) > maxDataPoints
    /\ Len(testData.download) = maxDataPoints
    /\ testData.download[1] # testData.download[maxDataPoints]

\* C9: each of the three series has at most maxDataPoints elements.
C9_SeriesBounded ==
    /\ Len(testData.download) <= maxDataPoints
    /\ Len(testData.upload) <= maxDataPoints
    /\ Len(testData.timestamps) <= maxDataPoints

\* C10: download and timestamps have the same length.
C10_DownloadMatchesTimestamps ==
    Len(testData.download) = Len(testData.timestamps)

\* The window has evicted and the upload series has been pushed to.
C10_Witness ==
    /\ Len(pushed) > maxDataPoints
    /\ Len(testData.upload) > 1
    /\ Len(testData.download) = maxDataPoints

\* C11: a body read that ends an iteration either records nothing (the probe
\* failed or the measurement was refused: the phase's samples, the series and
\* the pushed values stay as they were) or records one measurement strictly
\* between 0 and 1000 Mbps, to the phase's samples and to the series alike;
\* so the samples of a phase, from which its final mean is taken, are all
\* strictly inside (0, 1000).
C11_SanityFilter ==
    [][\A s \in Sessions :
           LET sp == sess[s].speeds
               sq == sess'[s].speeds
               accepted == {m \in env.mbps : m > 0 /\ m < SanityLimit}
           IN /\ (sess[s].pc = "dlBody" /\ sess'[s].pc # "dlBody")
                 => \/ /\ op' \in {"rejected", "failed"}
                       /\ sq = sp
                       /\ UNCHANGED <<testData, pushed>>
                    \/ /\ op' = "resume"
                       /\ \E m \in accepted :
                              /\ sq = Append(sp, m)
                              /\ pushed' = Append(pushed, RoundHundredths(m, 1))
              /\ (sess[s].pc = "ulBody" /\ sess'[s].pc # "ulBody")
                 => \/ /\ op' \in {"rejected", "failed"}
                       /\ sq = sp
                       /\ UNCHANGED <<testData, pushed>>
                    \/ /\ op' = "resume"
                       /\ \E m \in accepted :
                              /\ sq = Append(sp, m)
                              /\ testData'.upload
                                    = Append(testData.upload, RoundHundredths(m, 1))
              /\ \A i \in 1..Len(sq) : sq[i] > 0 /\ sq[i] < SanityLimit]_vars

\* The sanity check has just refused a measurement in a phase that holds an
\* accepted sample already.
C11_Witness ==
    /\ op = "rejected"
    /\ \E s \in Sessions : sess[s].pc = "dlSleep" /\ Len(sess[s].speeds) > 0

\* C12: an iteration whose probe fails (network error, non-2xx status,
\* timeout, or an error of the body read) records no sample and does not
\* leave the loop: the invocation goes to the interval sleep with its
\* samples, the series, the flag, the notification and the statistics as
\* they were; no step of an iteration ends the invocation; and after the
\* sleep the loop either begins its next iteration, the flag being true and
\* the time not up, or the phase returns to startSpeedTest.
C12_FailureContinuesLoop ==
    [][\A s \in Sessions :
           LET p == sess[s].pc
               q == sess'[s].pc
           IN /\ (op' = "failed" /\ q # p)
                 => /\ \/ p \in {"dlFetch", "dlBody"} /\ q = "dlSleep"
                       \/ p \in {"ulFetch", "ulBody"} /\ q = "ulSleep"
                    /\ sess'[s].speeds = sess[s].speeds
                    /\ UNCHANGED <<testData, pushed, isTestRunning, status, stats>>
              /\ (p = "dlFetch" /\ q # p) => q \in {"dlBody", "dlSleep"}
              /\ (p = "dlBody" /\ q # p) => q = "dlSleep"
              /\ (p = "ulFetch" /\ q # p) => q \in {"ulBody", "ulSleep"}
              /\ (p = "ulBody" /\ q # p) => q = "ulSleep"
              /\ (p = "dlSleep" /\ q # p /\ op' # "throw")
                 => \/ q = "dlFetch" /\ isTestRunning /\ sess'[s].elapsed < testDuration
                    \/ q = "pause"
              /\ (p = "ulSleep" /\ q # p /\ op' # "throw")
                 => \/ q = "ulFetch" /\ isTestRunning /\ sess'[s].elapsed < testDuration
                    \/ q = "none" /\ status' = "completed"]_vars

\* A probe has just failed in a running download phase that holds a sample
\* and has time left.
C12_Witness ==
    /\ op = "failed"
    /\ isTestRunning
    /\ \E s \in Sessions :
           /\ sess[s].pc = "dlSleep"
           /\ sess[s].elapsed < testDuration
           /\ Len(sess[s].speeds) > 0

\* The configuration of end-to-end scenario 1.
Scenario1 ==
    [durationMs |-> 1000, intervalMs |-> 200, probeMs |-> 50, bytes |-> 100000]

\* C13 as stated: in scenario 1, timers firing on time, the loop ends with
\* exactly 5 accepted samples, all alike, and the final summary published is
\* that value.
C13_FiveSamples ==
    (scn.pc = "done" /\ scn.cfg = Scenario1 /\ ~scn.late)
        => /\ Len(scn.speeds) = 5
           /\ \A i \in 1..Len(scn.speeds) : scn.speeds[i] = scn.speeds[1]
           /\ pushed[Len(pushed)] = pushed[1]

\* C13, amended: an iteration lasts the probe time and the interval sleep,
\* so the iterations of scenario 1 begin at 0, 250, 500 and 750 ms and the
\* loop finds its time up at 1000 ms: it ends with exactly 4 accepted samples
\* when the timers fire on time and never with more, every sample is
\* 15625/1024 = 15.2587890625 Mbps, published as 15.26, and the final summary
\* published is that same value.  For every configuration, timers on time,
\* the number n of samples is the least with n * (probe + interval) >= duration.
C13_FourSamples ==
    scn.pc = "done"
        => LET n == Len(scn.speeds)
               iteration == scn.cfg.probeMs + scn.cfg.intervalMs
           IN /\ ~scn.late
                 => n * iteration >= scn.cfg.durationMs
                    /\ (n - 1) * iteration < scn.cfg.durationMs
              /\ Len(pushed) = n + 1
              /\ \A i \in 1..n : scn.speeds[i] = scn.speeds[1]
              /\ \A i \in 1..(n + 1) : pushed[i] = pushed[1]
              /\ scn.cfg = Scenario1
                 => /\ n <= 4
                    /\ ~scn.late => n = 4
                    /\ \A i \in 1..n : scn.speeds[i] = [n |-> 15625, d |-> 1024]
                    /\ pushed[n + 1] = 1526

\* Scenario 1 has run to its end with every timer on time.
C13_Witness ==
    /\ scn.pc = "done"
    /\ scn.cfg = Scenario1
    /\ ~scn.late
    /\ Len(scn.speeds) = 4
    /\ Len(pushed) = 5

\* C14: when in all 3 trials all 3 probes fail, measureLatency does not
\* raise and shows an average that lies in [50, 100).
C14_SyntheticWhenAllFail ==
    (lat.pc = "done" /\ lat.down)
        => /\ net.errors = 0
           /\ lat.text = "ms"
           /\ Sum(lat.measurements) >= 50 * Len(lat.measurements)
           /\ Sum(lat.measurements) < 100 * Len(lat.measurements)

\* C15: whatever the probes do, measureLatency returns without raising,
\* having pushed exactly 3 values, one per trial, and begun exactly 2 sleeps,
\* one after each trial but the last; it shows the rounded mean of the 3
\* values and never 'Unable to measure'.
C15_ThreeTrialsTwoWaits ==
    /\ lat.pc = "wait"
       => Len(lat.measurements) \in {1, 2} /\ lat.waits = Len(lat.measurements)
    /\ lat.pc = "probe" => lat.waits = Len(lat.measurements) /\ lat.waits <= 2
    /\ lat.text # "Unable to measure"
    /\ lat.pc = "done"
       => /\ Len(lat.measurements) = 3
          /\ lat.waits = 2
          /\ lat.text = "ms"
          /\ lat.rounded = (2 * Sum(lat.measurements) + 3) \div 6
          /\ net.pc = "done" /\ net.errors = 0 /\ net.successes = 1

\* measureLatency has returned from a run in which every probe of every
\* trial was failing.
C15_Witness ==
    /\ lat.pc = "done"
    /\ lat.down
    /\ Len(lat.measurements) = 3
    /\ lat.waits = 2

\* C16: the band shown is a function of the average alone and every average
\* has exactly one: excellent below 50, good from 50 to below 100, fair from
\* 100 to below 200, poor from 200 on.
C16_BandsPartition ==
    lat.pc = "done"
        => LET sum == Sum(lat.measurements)
               len == Len(lat.measurements)
           IN /\ lat.band \in {"excellent", "good", "fair", "poor"}
              /\ lat.band = "excellent" <=> sum < 50 * len
              /\ lat.band = "good" <=> (50 * len <= sum /\ sum < 100 * len)
              /\ lat.band = "fair" <=> (100 * len <= sum /\ sum < 200 * len)
              /\ lat.band = "poor" <=> 200 * len <= sum

\* An average of exactly 50 ms has been classified, and as good.
C16_Witness ==
    /\ lat.pc = "done"
    /\ Sum(lat.measurements) = 50 * Len(lat.measurements)
    /\ lat.measurements[1] # lat.measurements[2]
    /\ lat.band = "good"

\* C17: when the public-IP or the geolocation lookup fails, the fields an
\* earlier step of the run has filled keep their values: the local address,
\* the connection type, the estimated connection speed, and the public IP
\* when its lookup had succeeded.
C17_PopulatedFieldsKept ==
    [][net'.errors > net.errors
         => /\ net.localIP = "address" => net'.localIP = net.localIP
            /\ net'.connectionType = net.connectionType
            /\ net.connectionSpeed = "estimated"
               => net'.connectionSpeed = net.connectionSpeed
            /\ net.publicIP = "address" => net'.publicIP = net.publicIP]_vars

\* C18: a run whose geolocation lookup timed out after the IP lookup had
\* succeeded ends without raising, with the looked-up address in the IP
\* field, the loading-error placeholder in location and ISP, and exactly one
\* error notification.
C18_GeoTimeoutKeepsIP ==
    (net.pc = "failed" /\ net.cause = "geoTimeout")
        => /\ net.publicIP = "address"
           /\ net.location = "Error loading"
           /\ net.isp = "Error loading"
           /\ net.errors = 1
           /\ net.successes = 0

\* C19: timers firing, every run of loadNetworkInfo ends, with the success
\* notification or with one error notification, whatever the external
\* services and the peer connection do.
C19_RunTerminates ==
    (net.pc # "idle")
        ~> (net.pc \in {"done", "failed"} /\ net.successes + net.errors = 1)

C21_StoppedSessionNotCounted ==
    [][\A s \in Sessions :
           (/\ sess[s].pc = "pause"
            /\ ~isTestRunning
            /\ sess'[s].pc = "none"
            /\ op' = "resume")
               => stats' = stats /\ status' # "completed"]_vars

\* C22: an invocation that a stop and a later start have superseded issues
\* no further probe: only the loop of the newest invocation goes on.
C22_OneLoopActive ==
    [][\A s \in Sessions :
           (sess[s].superseded /\ sess[s].pc \notin FetchPcs)
               => sess'[s].pc \notin FetchPcs]_vars

\* C23: the end of a superseded invocation leaves isTestRunning true while
\* the invocation started after it is still running.
C23_StaleFinallyKeepsFlag ==
    [][\A s \in Sessions :
           (/\ sess[s].superseded
            /\ sess[s].pc # "none"
            /\ sess'[s].pc = "none"
            /\ isTestRunning
            /\ \E r \in Sessions \ {s} : sess[r].pc # "none" /\ ~sess[r].superseded)
               => isTestRunning']_vars

\* C24: within a phase the probes of an invocation follow one another: a
\* request is issued only at the launch or after the interval sleep of the
\* iteration before it, the sleep begins only when that iteration's request
\* has settled (response read, failure or timeout), and the clock reading at
\* the new request is at least one interval past the one before.
C24_IterationsSequential ==
    [][\A s \in Sessions :
           LET p == sess[s].pc
               q == sess'[s].pc
           IN /\ (q = "dlFetch" /\ p # q) => p \in {"none", "dlSleep"}
              /\ (q = "ulFetch" /\ p # q) => p \in {"pause", "ulSleep"}
              /\ (q = "dlSleep" /\ p # q) => p \in {"dlFetch", "dlBody"}
              /\ (q = "ulSleep" /\ p # q) => p \in {"ulFetch", "ulBody"}
              /\ (q = "dlBody" /\ p # q) => p = "dlFetch"
              /\ (q = "ulBody" /\ p # q) => p = "ulFetch"
              /\ (p = "dlSleep" /\ q = "dlFetch") \/ (p = "ulSleep" /\ q = "ulFetch")
                 => sess'[s].elapsed >= sess[s].elapsed + updateInterval]_vars

\* The second request of a download phase is in flight, its first iteration
\* having given a sample.
C24_Witness ==
    \E s \in Sessions :
        /\ sess[s].pc = "dlFetch"
        /\ sess[s].elapsed >= updateInterval
        /\ Len(sess[s].speeds) > 0

\* C25: when a loop is left and the phase returns, a final value is
\* published exactly if the phase accepted a sample, and it is the mean of
\* all samples the phase accepted, rounded to hundredths, whether or not the
\* window still holds them; with no sample nothing is published.
C25_FinalIsMeanOfAccepted ==
    [][\A s \in Sessions :
           LET sp == sess[s].speeds
               n == Len(sp)
               mean == (2 * Sum(sp) + 10 * n) \div (20 * n)
           IN /\ (sess[s].pc = "dlSleep" /\ sess'[s].pc = "pause")
                 => IF n = 0
                    THEN UNCHANGED <<testData, pushed>>
                    ELSE /\ pushed' = Append(pushed, mean)
                         /\ testData'.download[Len(testData'.download)] = mean
              /\ (sess[s].pc \in {"pause", "ulSleep"} /\ sess'[s].pc = "none"
                    /\ op' = "resume")
                 => IF n = 0
                    THEN UNCHANGED <<testData, pushed>>
                    ELSE testData'.upload = Append(testData.upload, mean)]_vars

\* A download phase has returned after two different samples: the window,
\* full, has dropped the first of them, and the value published last lies
\* strictly between the two.
C25_Witness ==
    /\ \E s \in Sessions : sess[s].pc = "pause"
    /\ Len(pushed) = 3
    /\ pushed[1] < pushed[3]
    /\ pushed[3] < pushed[2]
    /\ testData.download = <<pushed[2], pushed[3]>>

\* C26: leaving a loop appends nothing to the series: the download and the
\* upload series hold the per-iteration measurements alone, k values for k
\* accepted iterations, and the final summary is not one of them.
C26_SummaryNotInSeries ==
    [][\A s \in Sessions :
           /\ (sess[s].pc = "dlSleep" /\ sess'[s].pc = "pause")
              => testData'.download = testData.download
           /\ (sess[s].pc \in {"pause", "ulSleep"} /\ sess'[s].pc = "none"
                 /\ op' = "resume")
              => testData'.upload = testData.upload]_vars

\* C27: in a trial the methods are called in the order HTTP-timing,
\* image-load, connectivity-handshake, each exactly when the one before it
\* failed, and the synthetic value is used exactly when all three failed.
C27_FallbackChain ==
    Len(lat.tried) > 0
        => LET c == lat.cond
               t == lat.tried
               Called(m) == \E i \in 1..Len(t) : t[i] = m
               chain == <<"fetch", "image", "webrtc", "synthetic">>
           IN /\ t = SubSeq(chain, 1, Len(t))
              /\ Called("image") <=> c.fetch = "fail"
              /\ Called("webrtc") <=> (c.fetch = "fail" /\ c.image = "fail")
              /\ Called("synthetic")
                    <=> (c.fetch = "fail" /\ c.image = "fail" /\ c.webrtc = "fail")

\* C28: every run of loadNetworkInfo that has ended, the lookups having
\* succeeded or failed, shows in the signal-strength and quality fields what
\* analyzeConnectionQuality derives from the connection hints.
C28_QualityAlwaysShown ==
    net.pc \in {"done", "failed"}
        => /\ net.signalStrength = analyzeConnectionQuality(net.conn).signalStrength
           /\ net.networkQuality = analyzeConnectionQuality(net.conn).networkQuality

\* C29: the quality shown by a run that reached analyzeConnectionQuality is
\* Unknown without the connection hints; with a downlink value it is
\* Excellent from 10 Mbps, Good from 5, Fair from 1 and Poor below 1, 0
\* included; without one it follows the effective type, 4g Good, 3g Fair,
\* 2g Poor, slow-2g Very Poor, anything else Unknown.
C29_QualityBands ==
    net.pc = "done"
        => LET c == net.conn
           IN net.networkQuality =
                  IF ~c.present THEN "Unknown"
                  ELSE IF c.hasDownlink
                  THEN IF c.downlink >= 100 THEN "Excellent"
                       ELSE IF c.downlink >= 50 THEN "Good"
                       ELSE IF c.downlink >= 10 THEN "Fair"
                       ELSE "Poor"
                  ELSE CASE c.effectiveType = "4g" -> "Good"
                         [] c.effectiveType = "3g" -> "Fair"
                         [] c.effectiveType = "2g" -> "Poor"
                         [] c.effectiveType = "slow-2g" -> "Very Poor"
                         [] OTHER -> "Unknown"

\* C30: the promise fetchWithTimeout returns is settled once, by whichever
\* of fetch() and the timer settles first: with the response or the fetch
\* error if that is fetch(), with 'timeout' if that is the timer.  The later
\* settlement of the other changes neither that result nor anything else.
C30_FirstSettlementWins ==
    [][\A c \in Calls :
           LET a == fwt[c]
               b == fwt'[c]
           IN /\ b.settled <= 1
              /\ a.result # "pending"
                 => b.result = a.result /\ b.settled = a.settled
              /\ (a.result = "pending" /\ b.fetch # a.fetch)
                 => b.result = b.fetch /\ b.settled = 1
              /\ (a.result = "pending" /\ b.timer # a.timer)
                 => b.result = "timeout" /\ b.settled = 1
              /\ b.result = "pending" <=> (b.fetch = "pending" /\ b.timer = "pending")
              /\ UNCHANGED <<speedTest, net, lat, scn, dns, page>>]_vars

\* One call was won by fetch() and its timer has fired since; another was
\* won by the timer and its fetch() has failed since.
C30_Witness ==
    \E c, d \in Calls :
        /\ fwt[c].result = "response" /\ fwt[c].timer = "fired"
        /\ fwt[d].result = "timeout" /\ fwt[d].fetch = "error"
        /\ fwt[c].settled = 1 /\ fwt[d].settled = 1

\* C31: a step of the network information, the latency measurement, the DNS
\* test, the connection listener, the scan or the export leaves
\* isTestRunning, the series and the statistics as they were; isTestRunning
\* becomes true in a start and false in a stop or at the end of an
\* invocation, whose finally calls stopSpeedTest; the series change in a
\* start, which resets them, or in a resumption of a sampling loop.
C31_OnlyTheSpeedTestWrites ==
    [][/\ <<net, lat, dns, page>>' # <<net, lat, dns, page>>
          => UNCHANGED <<isTestRunning, testData, stats>>
       /\ (~isTestRunning /\ isTestRunning') => op' = "start"
       /\ (isTestRunning /\ ~isTestRunning')
          => \/ op' = "stop"
             \/ \E s \in Sessions : sess[s].pc # "none" /\ sess'[s].pc = "none"
       /\ testData' # testData
          => \/ op' = "start" /\ testData' = resetTestUI
             \/ /\ op' \in {"resume", "failed", "rejected"}
                /\ \E s \in Sessions : /\ sess[s].pc \in DownloadPcs \cup UploadPcs
                                        /\ sess'[s] # sess[s]]_vars

\* A speed test is running with samples in the series while the DNS test
\* has gone through its three resolvers.
C31_Witness ==
    /\ isTestRunning
    /\ testData.download # <<>>
    /\ dns.pc = "done"

\* C32: whenever isTestRunning goes from false to true, the three series
\* are empty when the first probe of the new session is issued, whatever
\* they held before.
C32_SeriesEmptyOnStart ==
    [][(~isTestRunning /\ isTestRunning')
       => /\ testData' = [download |-> <<>>, upload |-> <<>>, timestamps |-> <<>>]
          /\ \E s \in Sessions : sess[s].pc = "none" /\ sess'[s].pc = "dlFetch"]_vars

\* A session has just been started, its first probe is in flight, and the
\* invocation it superseded had pushed samples to the series before.
C32_Witness ==
    /\ op = "start"
    /\ isTestRunning
    /\ testData.download = <<>>
    /\ \E s, r \in Sessions :
           /\ sess[s].pc = "dlFetch" /\ ~sess[s].superseded
           /\ sess[r].superseded /\ sess[r].speeds # <<>>

\* C33: testDNS sends the request for a resolver only when the entry of the
\* one before has been pushed, every settled request adds one entry, named
\* after its resolver, to the entries already there, and the run ends with
\* three entries in resolver order whatever the requests met.
C33_ResolversIsolated ==
    [][LET d == dns'
       IN /\ d.issued = [k \in 1..Len(d.issued) |-> k]
          /\ Len(d.issued) = Len(d.results) + (IF d.pc = "fetch" THEN 1 ELSE 0)
          /\ \A k \in 1..Len(d.results) : d.results[k].name = dnsServers[k]
          /\ d.results # dns.results
             => /\ Len(d.results) = Len(dns.results) + 1
                /\ SubSeq(d.results, 1, Len(dns.results)) = dns.results
          /\ d.pc = "done"
             => Len(d.results) = 3 /\ d.shown = "results" /\ d.status = "completed"]_vars

\* A run has ended in which the first resolver timed out or failed, the
\* second answered with an error status and the third answered in time.
C33_Witness ==
    /\ dns.pc = "done"
    /\ dns.results[1].text = "Timeout/Error"
    /\ dns.results[2].text = "Error"
    /\ dns.results[3].text = "ms"

\* C34: where navigator.connection exists, one 'change' listener is
\* registered however many 'change' events occurred, and an event causes one
\* call of checkConnection and one notification.
C34_OneListener ==
    page.connection = "present"
    => /\ page.listeners = 1
       /\ page.changes > 0 => page.rechecks = 1 /\ page.notified = 1

====
